---- MODULE Spec2Model ----
(***************************************************************************)
(* SimpleTodoApp: the task service in its two variants, the in-memory      *)
(* MockTodoService (a Python list of MockTodoEntity) and the relational    *)
(* TodoService (SQLAlchemy sessions over the table "todos"), together with *)
(* the controller entry points that dispatch to them; and the user         *)
(* service (registration, login, session scope) with the token codec.      *)
(*                                                                         *)
(* Representation.  An id n >= 1 is the n-th value produced by             *)
(* uuid.uuid4(); the id 0 is a string chosen by a client that is no        *)
(* generated uuid (e.g. "ignored").  Strings are TLA+ strings; Python's    *)
(* ordering of str (by code point) is StrRank.  A task is a record         *)
(* [id, title, description, status, priority]; title and status are str    *)
(* values, description is a str value or None (Optional[str], the value    *)
(* Null), priority is the name of a Priority member.                       *)
(***************************************************************************)
EXTENDS Integers, Sequences, FiniteSets, Bags, TLC

VARIABLES
    dev_environment,  \* Config.DEV_ENVIRONMENT: TRUE = MockTodoService, FALSE = TodoService
    database,         \* Config.DATABASE_URL: the database the engine of the
                      \* relational variant is created for
    todos,            \* the backing collection in insertion order: the list `todos`
                      \* of mock_todo_dao, or the committed rows of the table "todos"
    next_uuid,        \* how many uuid4 values have been generated
    sessions,         \* relational variant: per id, the number of open sessions that
                      \* hold the row marked by session.delete() and not yet flushed
    units,            \* relational variant: the bag of create_todo and update_todo
                      \* calls whose query function is between two statements in
                      \* its worker thread, each with the session state it holds
    true_deletes,     \* history: per id, how many delete(id) calls returned True
    last,             \* the last completed request: operation, arguments, outcome
    users,            \* the committed rows of the table "users" in insertion order
    now,              \* the wall clock (UTC) in milliseconds
    token,            \* the access token a client holds (NoToken before any was issued)
    in_flight,        \* in-memory variant: the requests whose coroutines are
                      \* suspended in their initial `await asyncio.sleep(...)`,
                      \* in the order they were called
    written           \* history: per id, the fields last written by a completed
                      \* create_todo or update_todo of the in-memory variant

vars == <<dev_environment, database, todos, next_uuid, sessions, units, true_deletes, last,
          users, now, token, in_flight, written>>

\* the state of the user service and the token codec
auth_vars == <<users, now, token>>

\* the coroutines and the write history of the in-memory variant
mock_vars == <<in_flight, written>>

----------------------------------------------------------------------------
(* Bounds of the model *)

MaxUuid == 2        \* uuid4 values generated in one run (number of creates)
MaxSessions == 2    \* relational sessions (overlapping requests) open at one time
MaxStore == 2       \* length of the stores the query specification starts from
MaxPage == 2        \* page numbers 1..MaxPage
MaxSize == 2        \* page sizes 1..MaxSize
MaxInFlight == 2    \* coroutines of the in-memory variant suspended at one time

----------------------------------------------------------------------------
(* Values *)

\* Python's None as the value of a description (a body that gives null): it
\* is compared with str values, so it is a string here, one that no str of
\* the model is spelt as.
Null == "null"

\* Priority enum: the member names, which are also the member values.
PriorityNames == {"LOW", "MEDIUM", "HIGH"}

\* Enum ordinal of a priority (declaration order LOW, MEDIUM, HIGH): the
\* order of a native enum type of the database.
PriorityOrdinal(p) == CASE p = "LOW" -> 0 [] p = "MEDIUM" -> 1 [] p = "HIGH" -> 2

\* AttributeTypes enum of the search entry point.
AttributeTypes == {"ID", "TITLE", "PRIORITY"}

\* Python's order on the str values that occur (comparison by code point),
\* the values of the Priority members included; also the order of a binary
\* collation (SQLite BINARY, PostgreSQL "C").
StrRank(s) ==
    CASE s = "" -> 0
      [] s = "A" -> 1
      [] s = "Annual checkup with Dr. Smith" -> 2
      [] s = "Buy a gift for Sarah's birthday" -> 3
      [] s = "Buy groceries" -> 4
      [] s = "Call plumber" -> 5
      [] s = "Clean the house" -> 6
      [] s = "Complete and submit the university assignment" -> 7
      [] s = "Complete project report" -> 8
      [] s = "Completed" -> 9
      [] s = "Doctor's appointment" -> 10
      [] s = "Finish the quarterly project report" -> 11
      [] s = "Fix the leaking sink in the kitchen" -> 12
      [] s = "General house cleaning and organizing" -> 13
      [] s = "HIGH" -> 14
      [] s = "In Progress" -> 15
      [] s = "LOW" -> 16
      [] s = "MEDIUM" -> 17
      [] s = "Milk, eggs, bread, butter, and vegetables" -> 18
      [] s = "Order birthday gift" -> 19
      [] s = "Pay electricity bill" -> 20
      [] s = "Pay the monthly electricity bill before due date" -> 21
      [] s = "Pending" -> 22
      [] s = "Prepare presentation" -> 23
      [] s = "Prepare slides for the company meeting" -> 24
      [] s = "Renew gym membership" -> 25
      [] s = "Renew membership for the upcoming year" -> 26
      [] s = "Submit assignment" -> 27
      [] s = "X" -> 28
      [] s = "a" -> 29
      [] s = "b" -> 30
      [] s = "d" -> 31

\* The order of a locale collation (en_US.UTF-8) on the same values: letters
\* compare without case first, a lower-case letter before its capital.
LocaleRank(s) ==
    CASE s = "" -> 0
      [] s = "a" -> 1
      [] s = "A" -> 2
      [] s = "Annual checkup with Dr. Smith" -> 3
      [] s = "b" -> 4
      [] s = "Buy a gift for Sarah's birthday" -> 5
      [] s = "Buy groceries" -> 6
      [] s = "Call plumber" -> 7
      [] s = "Clean the house" -> 8
      [] s = "Complete and submit the university assignment" -> 9
      [] s = "Complete project report" -> 10
      [] s = "Completed" -> 11
      [] s = "d" -> 12
      [] s = "Doctor's appointment" -> 13
      [] s = "Finish the quarterly project report" -> 14
      [] s = "Fix the leaking sink in the kitchen" -> 15
      [] s = "General house cleaning and organizing" -> 16
      [] s = "HIGH" -> 17
      [] s = "In Progress" -> 18
      [] s = "LOW" -> 19
      [] s = "MEDIUM" -> 20
      [] s = "Milk, eggs, bread, butter, and vegetables" -> 21
      [] s = "Order birthday gift" -> 22
      [] s = "Pay electricity bill" -> 23
      [] s = "Pay the monthly electricity bill before due date" -> 24
      [] s = "Pending" -> 25
      [] s = "Prepare presentation" -> 26
      [] s = "Prepare slides for the company meeting" -> 27
      [] s = "Renew gym membership" -> 28
      [] s = "Renew membership for the upcoming year" -> 29
      [] s = "Submit assignment" -> 30
      [] s = "X" -> 31

\* The order of a case-insensitive collation (MySQL's default) on the same
\* values: values that differ in case only are equal.
CiRank(s) ==
    CASE s = "" -> 0
      [] s = "A" -> 1
      [] s = "a" -> 1
      [] s = "Annual checkup with Dr. Smith" -> 2
      [] s = "b" -> 3
      [] s = "Buy a gift for Sarah's birthday" -> 4
      [] s = "Buy groceries" -> 5
      [] s = "Call plumber" -> 6
      [] s = "Clean the house" -> 7
      [] s = "Complete and submit the university assignment" -> 8
      [] s = "Complete project report" -> 9
      [] s = "Completed" -> 10
      [] s = "d" -> 11
      [] s = "Doctor's appointment" -> 12
      [] s = "Finish the quarterly project report" -> 13
      [] s = "Fix the leaking sink in the kitchen" -> 14
      [] s = "General house cleaning and organizing" -> 15
      [] s = "HIGH" -> 16
      [] s = "In Progress" -> 17
      [] s = "LOW" -> 18
      [] s = "MEDIUM" -> 19
      [] s = "Milk, eggs, bread, butter, and vegetables" -> 20
      [] s = "Order birthday gift" -> 21
      [] s = "Pay electricity bill" -> 22
      [] s = "Pay the monthly electricity bill before due date" -> 23
      [] s = "Pending" -> 24
      [] s = "Prepare presentation" -> 25
      [] s = "Prepare slides for the company meeting" -> 26
      [] s = "Renew gym membership" -> 27
      [] s = "Renew membership for the upcoming year" -> 28
      [] s = "Submit assignment" -> 29
      [] s = "X" -> 30

\* str.upper() on the search values that occur.
upper(s) ==
    CASE s \in {"high", "High", "HIGH"} -> "HIGH"
      [] s \in {"low", "LOW"} -> "LOW"
      [] s \in {"medium", "MEDIUM"} -> "MEDIUM"
      [] s \in {"urgent", "URGENT"} -> "URGENT"

\* Pagination: page > 0, size > 0, order_by one of four fields, desc.
OrderBys == {"title", "description", "status", "priority"}

Pagination ==
    [page : 1..MaxPage, size : 1..MaxSize, order_by : OrderBys, desc : BOOLEAN]

\* Pagination.offset
offset(p) == (p.page - 1) * p.size

\* Python slice s[lo:hi] for 0 <= lo <= hi.
Slice(s, lo, hi) ==
    IF lo >= Len(s) THEN <<>>
    ELSE SubSeq(s, lo + 1, IF hi < Len(s) THEN hi ELSE Len(s))

\* The databases create_engine(url=config.DATABASE_URL) may be bound to:
\* SQLite, PostgreSQL with the "C" or with a locale collation, MySQL with
\* its default case-insensitive collation.
Databases == {"sqlite", "postgresql_C", "postgresql_locale", "mysql"}

\* The database of the specifications whose requests issue no ORDER BY and
\* compare ids only (user_controller tests for PostgreSQL's error text).
ReferenceDatabase == "postgresql_C"

\* Enum(Priority) is a native enum type of the database (PostgreSQL, MySQL)
\* or a VARCHAR column that holds the member names (SQLite).
NativeEnum(db) == db # "sqlite"

\* the order of the values of a string column under the database's collation
Collate(db, s) ==
    CASE db \in {"sqlite", "postgresql_C"} -> StrRank(s)
      [] db = "postgresql_locale" -> LocaleRank(s)
      [] db = "mysql" -> CiRank(s)

\* `column = value` on a string column: equality of the strings, under a
\* case-insensitive collation equality of their collation keys
ColumnEquals(db, x, y) == IF db = "mysql" THEN CiRank(x) = CiRank(y) ELSE x = y

\* ORDER BY <order_by>: the database's order of the values of the column,
\* its collation for the strings and for the member names of a VARCHAR
\* priority, the declaration order for a native enum
ColumnKey(db, e, order_by) ==
    CASE order_by = "title" -> Collate(db, e.title)
      [] order_by = "description" -> Collate(db, e.description)
      [] order_by = "status" -> Collate(db, e.status)
      [] order_by = "priority" ->
            IF NativeEnum(db) THEN PriorityOrdinal(e.priority)
            ELSE Collate(db, e.priority)

\* s is ordered as the database orders the column order_by in the given direction
IsSorted(db, s, order_by, desc) ==
    \A i \in 1..Len(s) : \A j \in 1..Len(s) :
        i < j => IF desc THEN ColumnKey(db, s[i], order_by) >= ColumnKey(db, s[j], order_by)
                 ELSE ColumnKey(db, s[i], order_by) <= ColumnKey(db, s[j], order_by)

\* the order the specification states for a column: lexical for the
\* strings, the enum ordinal for priority (an absent description, which the
\* specification does not place, is put first)
StatedKey(e, order_by) ==
    CASE order_by = "title" -> StrRank(e.title)
      [] order_by = "description" ->
            IF e.description = Null THEN -1 ELSE StrRank(e.description)
      [] order_by = "status" -> StrRank(e.status)
      [] order_by = "priority" -> PriorityOrdinal(e.priority)

\* s is in the stated order of the column order_by in the given direction
IsSortedAsStated(s, order_by, desc) ==
    \A i \in 1..Len(s) : \A j \in 1..Len(s) :
        i < j => IF desc THEN StatedKey(s[i], order_by) >= StatedKey(s[j], order_by)
                 ELSE StatedKey(s[i], order_by) <= StatedKey(s[j], order_by)

\* getattr(obj, order_by) as a value of the order Python's `<` compares by.
\* A Priority member is compared as such: where Priority mixes in str that is
\* the order of the member values (HIGH < LOW < MEDIUM), never the position
\* of the declaration; where it does not, `<` raises TypeError (Comparable).
SortKey(e, order_by) ==
    CASE order_by = "title" -> StrRank(e.title)
      [] order_by = "description" -> StrRank(e.description)
      [] order_by = "status" -> StrRank(e.status)
      [] order_by = "priority" -> StrRank(e.priority)

\* x may stay before y in a sequence sorted by order_by in the given direction
InOrder(x, y, order_by, desc) ==
    IF desc THEN SortKey(x, order_by) >= SortKey(y, order_by)
    ELSE SortKey(x, order_by) <= SortKey(y, order_by)

\* Whether the keys of a sort of s compare.  A sort of two or more elements
\* compares every key with another: None compares with nothing (TypeError);
\* of the Priority enum the sort can meet two builds, a str-valued enum,
\* whose members compare, or a plain Enum, whose members do not.
Comparable(s, order_by) ==
    IF Len(s) < 2 THEN {TRUE}
    ELSE IF order_by = "priority" THEN BOOLEAN
    ELSE IF \E i \in 1..Len(s) : s[i][order_by] = Null THEN {FALSE}
    ELSE {TRUE}

\* insert x behind every element that may stay before it (stable)
RECURSIVE InsertStable(_, _, _, _)
InsertStable(x, s, order_by, desc) ==
    IF s = <<>> THEN <<x>>
    ELSE IF InOrder(Head(s), x, order_by, desc)
         THEN <<Head(s)>> \o InsertStable(x, Tail(s), order_by, desc)
         ELSE <<x>> \o s

\* Python sorted(s, key=getattr(., order_by), reverse=desc): a stable sort;
\* with reverse=True equal elements still keep their original order.
RECURSIVE sorted(_, _, _)
sorted(s, order_by, desc) ==
    IF s = <<>> THEN <<>>
    ELSE InsertStable(s[Len(s)], sorted(SubSeq(s, 1, Len(s) - 1), order_by, desc),
                      order_by, desc)

\* TodoBoundary.from_entity: the public fields of the entity
from_entity(e) ==
    [id |-> e.id, title |-> e.title, description |-> e.description,
     status |-> e.status, priority |-> e.priority]

from_entities(s) == [i \in 1..Len(s) |-> from_entity(s[i])]

\* TodoBoundary.from_entities(sorted(s, key=lambda obj: getattr(obj, order_by),
\* reverse=desc)): the sorted page, or the TypeError of a comparison of keys
\* that define no order
sorted_page(s, order_by, desc) ==
    {IF comparable THEN [kind |-> "list", value |-> from_entities(sorted(s, order_by, desc))]
     ELSE [kind |-> "TypeError"] : comparable \in Comparable(s, order_by)}

----------------------------------------------------------------------------
(* MockTodoService: the queries, as functions of the list they read.       *)

\* MockTodoService.get_all_todos: slice the list by offset and size, then sort the slice
MockTodoService_get_all_todos(dao, p) ==
    sorted_page(Slice(dao, offset(p), offset(p) + p.size), p.order_by, p.desc)

\* MockTodoService.get_todo_by_id(self, attr_value): exactly one positional
\* argument; args is the sequence of positional arguments of the call
MockTodoService_get_todo_by_id(dao, args) ==
    IF Len(args) # 1 THEN [kind |-> "TypeError"]
    ELSE LET found == SelectSeq(dao, LAMBDA e : e.id = args[1])
         IN IF found = <<>> THEN [kind |-> "none"]
            ELSE [kind |-> "one", value |-> from_entity(Head(found))]

\* MockTodoService.get_todo_by_title: filter by title, slice, then sort the slice
MockTodoService_get_todo_by_title(dao, attr_value, p) ==
    sorted_page(Slice(SelectSeq(dao, LAMBDA e : e.title = attr_value),
                      offset(p), offset(p) + p.size),
                p.order_by, p.desc)

\* MockTodoService.get_todo_by_priority: Priority(attr_value.upper()) or
\* ValueError; then filter by priority, slice, sort the slice
MockTodoService_get_todo_by_priority(dao, attr_value, p) ==
    IF upper(attr_value) \notin PriorityNames THEN {[kind |-> "ValueError"]}
    ELSE LET priority == upper(attr_value)
         IN sorted_page(Slice(SelectSeq(dao, LAMBDA e : e.priority = priority),
                              offset(p), offset(p) + p.size),
                        p.order_by, p.desc)

----------------------------------------------------------------------------
(* TodoService: the queries.  ORDER BY names one column and no tie-break,  *)
(* so the rows that tie on it come in an order the store chooses: a query  *)
(* has a set of possible outcomes.                                         *)

\* the permutations of rows
Arrangements(rows) ==
    LET n == Len(rows)
        bijections == {f \in [1..n -> 1..n] : \A i, j \in 1..n : f[i] = f[j] => i = j}
    IN {[i \in 1..n |-> rows[f[i]]] : f \in bijections}

\* query.order_by(asc(order_by) | desc(order_by)): every arrangement of the
\* rows that is sorted in the database's order of the column
order_by_with_direction(db, rows, order_by, desc) ==
    {o \in Arrangements(rows) : IsSorted(db, o, order_by, desc)}

\* TodoService.get_all_todos: ORDER BY, then OFFSET and LIMIT
TodoService_get_all_todos(db, rows, p) ==
    {[kind |-> "list", value |-> from_entities(Slice(o, offset(p), offset(p) + p.size))] :
        o \in order_by_with_direction(db, rows, p.order_by, p.desc)}

\* TodoService.get_todo_by_id(self, attr_value, *args): further arguments are accepted
TodoService_get_todo_by_id(rows, args) ==
    LET found == SelectSeq(rows, LAMBDA e : e.id = args[1])
    IN IF found = <<>> THEN {[kind |-> "none"]}
       ELSE {[kind |-> "one", value |-> from_entity(Head(found))]}

\* TodoService.get_todo_by_title: WHERE title = attr_value, ORDER BY, OFFSET, LIMIT
TodoService_get_todo_by_title(db, rows, attr_value, p) ==
    {[kind |-> "list", value |-> from_entities(Slice(o, offset(p), offset(p) + p.size))] :
        o \in order_by_with_direction(
                 db, SelectSeq(rows, LAMBDA e : ColumnEquals(db, e.title, attr_value)),
                 p.order_by, p.desc)}

\* WHERE priority = attr_value with the search value as given (no upper(),
\* no Priority(...)): a native enum of PostgreSQL refuses a value that is no
\* member name (DataError), MySQL compares under its case-insensitive
\* collation, SQLite compares the strings
priority_equals(db, rows, attr_value) ==
    CASE db = "sqlite" ->
            [kind |-> "rows", value |-> SelectSeq(rows, LAMBDA e : e.priority = attr_value)]
      [] db \in {"postgresql_C", "postgresql_locale"} ->
            IF attr_value \in PriorityNames
            THEN [kind |-> "rows",
                  value |-> SelectSeq(rows, LAMBDA e : e.priority = attr_value)]
            ELSE [kind |-> "DataError"]
      [] db = "mysql" ->
            [kind |-> "rows",
             value |-> SelectSeq(rows, LAMBDA e : e.priority = upper(attr_value))]

\* TodoService.get_todo_by_priority: WHERE priority = attr_value, ORDER BY,
\* OFFSET, LIMIT
TodoService_get_todo_by_priority(db, rows, attr_value, p) ==
    LET matching == priority_equals(db, rows, attr_value)
    IN IF matching.kind = "DataError" THEN {[kind |-> "DataError"]}
       ELSE {[kind |-> "list",
              value |-> from_entities(Slice(o, offset(p), offset(p) + p.size))] :
                o \in order_by_with_direction(db, matching.value, p.order_by, p.desc)}

----------------------------------------------------------------------------
(* Controller: the service chosen by DEV_ENVIRONMENT and the mapping of    *)
(* outcomes to responses.                                                  *)

\* MockTodoService.__init__: self.todo_dao = []
MockTodoService_init == [todo_dao |-> <<>>]

\* MockTodoService.set_todo_dao: the service holds the list it is given (the
\* list itself, not a copy)
set_todo_dao(todo_service, todo_dao) == [todo_service EXCEPT !.todo_dao = todo_dao]

\* get_todo_service with DEV_ENVIRONMENT set: every request gets a new
\* MockTodoService bound to the one list `todos` of mock_todo_dao
get_todo_service(todo_dao) == set_todo_dao(MockTodoService_init, todo_dao)

\* the outcomes of todo_service.get_all_todos for the configured service
get_all_todos(dev, db, store, p) ==
    IF dev THEN MockTodoService_get_all_todos(get_todo_service(store).todo_dao, p)
    ELSE TodoService_get_all_todos(db, store, p)

\* method_map[search_type](attr_value, pagination_query): two positional arguments
method_map(dev, db, store, search_type, attr_value, p) ==
    CASE search_type = "ID" ->
            IF dev THEN {MockTodoService_get_todo_by_id(get_todo_service(store).todo_dao,
                                                        <<attr_value, p>>)}
            ELSE TodoService_get_todo_by_id(store, <<attr_value, p>>)
      [] search_type = "TITLE" ->
            IF dev THEN MockTodoService_get_todo_by_title(get_todo_service(store).todo_dao,
                                                          attr_value, p)
            ELSE TodoService_get_todo_by_title(db, store, attr_value, p)
      [] search_type = "PRIORITY" ->
            IF dev THEN MockTodoService_get_todo_by_priority(get_todo_service(store).todo_dao,
                                                             attr_value, p)
            ELSE TodoService_get_todo_by_priority(db, store, attr_value, p)

\* get_todo_by_attribute: ValueError -> 400, None -> 404, any other exception
\* is not caught (500), a value -> 200; get_all_todos catches nothing
Response(outcome) ==
    CASE outcome.kind = "ValueError" -> [status |-> 400, kind |-> "error"]
      [] outcome.kind \in {"TypeError", "DataError"} -> [status |-> 500, kind |-> "error"]
      [] outcome.kind = "none" -> [status |-> 404, kind |-> "error"]
      [] OTHER -> [status |-> 200, kind |-> outcome.kind, body |-> outcome.value]

get_todo_by_attribute(dev, db, store, search_type, attr_value, p) ==
    {Response(o) : o \in method_map(dev, db, store, search_type, attr_value, p)}

----------------------------------------------------------------------------
(* Request bodies, boundaries and entities *)

\* TodoBoundary(**body): id and title are required; description, status and
\* priority take their defaults when the body does not carry them
TodoBoundary(body) ==
    [id |-> body.id,
     title |-> body.title,
     description |-> IF "description" \in DOMAIN body THEN body.description ELSE "",
     status |-> IF "status" \in DOMAIN body THEN body.status ELSE "Pending",
     priority |-> IF "priority" \in DOMAIN body THEN body.priority ELSE "LOW"]

\* TodoBoundary.model_dump(): every field of the boundary, defaults included
model_dump(todo_boundary) ==
    [f \in {"id", "title", "description", "status", "priority"} |-> todo_boundary[f]]

\* the JSON bodies of POST /todos and PUT /todos/{todo_id} with the given id
RequestBodies(id) ==
    {[id |-> id, title |-> "X"],
     [id |-> id, title |-> "a"],
     [id |-> id, title |-> "X", description |-> Null],
     [id |-> id, title |-> "X", description |-> "d", status |-> "Completed",
      priority |-> "HIGH"]}

\* MockTodoEntity.from_boundary: cls() draws a fresh uuid4; the boundary's id is not copied
MockTodoEntity_from_boundary(todo_boundary, uuid) ==
    [id |-> uuid, title |-> todo_boundary.title,
     description |-> todo_boundary.description, status |-> todo_boundary.status,
     priority |-> todo_boundary.priority]

\* TodoEntity.from_boundary: the column default draws a fresh uuid4 at the insert
TodoEntity_from_boundary(todo_boundary, uuid) ==
    [id |-> uuid, title |-> todo_boundary.title,
     description |-> todo_boundary.description, status |-> todo_boundary.status,
     priority |-> todo_boundary.priority]

\* MockTodoEntity.update without data.pop('id'): every dumped field is set
MockTodoEntity_update_NoPop(entity, data) ==
    [f \in DOMAIN entity |-> IF f \in DOMAIN data THEN data[f] ELSE entity[f]]

\* MockTodoEntity.update: data.pop('id', None), then setattr for every remaining field
MockTodoEntity_update(entity, data) ==
    [f \in DOMAIN entity |-> IF f \in DOMAIN data \ {"id"} THEN data[f] ELSE entity[f]]

\* TodoEntity.update: data.pop('id', None), then setattr for every remaining field
TodoEntity_update(entity, data) ==
    [f \in DOMAIN entity |-> IF f \in DOMAIN data \ {"id"} THEN data[f] ELSE entity[f]]

\* the index of the first element with the given id, 0 if there is none
IndexOf(store, todo_id) ==
    IF \E i \in 1..Len(store) : store[i].id = todo_id
    THEN CHOOSE i \in 1..Len(store) :
            /\ store[i].id = todo_id
            /\ \A j \in 1..(i - 1) : store[j].id # todo_id
    ELSE 0

\* the sequence without its i-th element
Without(s, i) == SubSeq(s, 1, i - 1) \o SubSeq(s, i + 1, Len(s))

\* list.remove(x): the list without its first element equal to x
remove(store, x) ==
    LET i == CHOOSE k \in 1..Len(store) :
                 store[k] = x /\ \A j \in 1..(k - 1) : store[j] # x
    IN SubSeq(store, 1, i - 1) \o SubSeq(store, i + 1, Len(store))

----------------------------------------------------------------------------
(* MockTodoService: the mutations, as functions of the list: the result is *)
(* the list afterwards and the value returned.  That the statements of a   *)
(* method take effect together is what MockSpec checks.                    *)

\* MockTodoService.create_todo
MockTodoService_create_todo(dao, todo_boundary, uuid) ==
    LET todo_entity == MockTodoEntity_from_boundary(todo_boundary, uuid)
    IN [store |-> Append(dao, todo_entity),
        result |-> [kind |-> "one", value |-> from_entity(todo_entity)]]

\* MockTodoService.update_todo
MockTodoService_update_todo(dao, todo_id, todo_boundary) ==
    LET i == IndexOf(dao, todo_id)
    IN IF i = 0 THEN [store |-> dao, result |-> [kind |-> "none"]]
       ELSE LET todo_entity == MockTodoEntity_update(dao[i], model_dump(todo_boundary))
            IN [store |-> [dao EXCEPT ![i] = todo_entity],
                result |-> [kind |-> "one", value |-> from_entity(todo_entity)]]

\* MockTodoService.delete
MockTodoService_delete(dao, todo_id) ==
    LET i == IndexOf(dao, todo_id)
    IN IF i = 0 THEN [store |-> dao, result |-> FALSE]
       ELSE [store |-> remove(dao, dao[i]), result |-> TRUE]

----------------------------------------------------------------------------
(* TodoService: the mutations.  A query function runs in a worker thread   *)
(* on the session of its request; the commits of other sessions fall       *)
(* between its statements, so each statement that reaches the table is an  *)
(* operator of its own.  create_todo and update_todo commit inside the     *)
(* query function; delete marks the row in its session and returns.        *)

\* TodoService.create_todo up to commit(): from_boundary, add, commit: the
\* INSERT of the new row, which the NOT NULL column description refuses
\* for a description of None (IntegrityError)
TodoService_create_todo(rows, todo_boundary, uuid) ==
    LET todo_entity == TodoEntity_from_boundary(todo_boundary, uuid)
    IN IF todo_entity.description = Null
       THEN [store |-> rows, kind |-> "IntegrityError"]
       ELSE [store |-> Append(rows, todo_entity), kind |-> "committed"]

\* session.refresh(todo_entity), then TodoBoundary.from_entity(todo_entity):
\* the SELECT by primary key of the row as committed now; InvalidRequestError
\* when the row is gone
refresh(rows, todo_id) ==
    LET i == IndexOf(rows, todo_id)
    IN IF i = 0 THEN [kind |-> "InvalidRequestError"]
       ELSE [kind |-> "one", value |-> from_entity(rows[i])]

\* TodoService.update_todo, its first statement: query(...).one_or_none(), the
\* row as the session loads it, or None
one_or_none(rows, todo_id) ==
    IF IndexOf(rows, todo_id) = 0 THEN [kind |-> "none"]
    ELSE [kind |-> "one", value |-> rows[IndexOf(rows, todo_id)]]

\* the attributes that todo_entity.update(...) left different from the values loaded
Dirty(loaded, todo_boundary) ==
    {f \in DOMAIN loaded :
        TodoEntity_update(loaded, model_dump(todo_boundary))[f] # loaded[f]}

\* TodoService.update_todo from update() to commit(): the flush issues
\* UPDATE todos SET <the dirty columns> WHERE id = todo_id, and no statement
\* when no attribute is dirty; StaleDataError when the UPDATE matches no
\* row, IntegrityError when it sets the NOT NULL column description to None
TodoService_update_todo(rows, loaded, todo_boundary) ==
    LET todo_entity == TodoEntity_update(loaded, model_dump(todo_boundary))
        dirty == Dirty(loaded, todo_boundary)
        i == IndexOf(rows, loaded.id)
    IN IF dirty = {} THEN [store |-> rows, kind |-> "committed"]
       ELSE IF i = 0 THEN [store |-> rows, kind |-> "StaleDataError"]
       ELSE IF "description" \in dirty /\ todo_entity.description = Null
       THEN [store |-> rows, kind |-> "IntegrityError"]
       ELSE [store |-> [rows EXCEPT ![i] =
                           [f \in DOMAIN @ |-> IF f \in dirty THEN todo_entity[f] ELSE @[f]]],
             kind |-> "committed"]

\* TodoService.delete: one_or_none; session.delete(todo_entity) marks the row
\* in the session (no flush, no commit); the result is the id marked (0 if
\* none) and the value returned
TodoService_delete(rows, todo_id) ==
    IF IndexOf(rows, todo_id) = 0 THEN [marked |-> 0, result |-> FALSE]
    ELSE [marked |-> todo_id, result |-> TRUE]

\* session.commit() with a row marked deleted: DELETE FROM todos WHERE id = marked
commit_delete(rows, marked) == SelectSeq(rows, LAMBDA e : e.id # marked)

----------------------------------------------------------------------------
(* todo_controller: the status of PUT and DELETE /todos/{todo_id} *)

\* an exception of the service that no handler catches: 500
Raised(result) ==
    result.kind \in {"StaleDataError", "InvalidRequestError", "IntegrityError"}

\* create_task: 201 with the boundary returned
create_task(result) == IF Raised(result) THEN 500 ELSE 201

\* update_task: `if not updated_todo: raise HTTPException(404)`, else 200
update_task(result) ==
    IF Raised(result) THEN 500 ELSE IF result.kind = "none" THEN 404 ELSE 200

\* delete_task: `if not await todo_service.delete(todo_id): raise
\* HTTPException(404)`, else 204
delete_task(result) == IF ~result THEN 404 ELSE 204

----------------------------------------------------------------------------
(* Stores the query specification starts from *)

\* the list `todos` of mock_todo_dao: the store of the in-memory variant at start-up
MockTodos ==
    <<[id |-> 1, title |-> "Complete project report",
       description |-> "Finish the quarterly project report",
       status |-> "Pending", priority |-> "HIGH"],
      [id |-> 2, title |-> "Buy groceries",
       description |-> "Milk, eggs, bread, butter, and vegetables",
       status |-> "In Progress", priority |-> "MEDIUM"],
      [id |-> 3, title |-> "Call plumber",
       description |-> "Fix the leaking sink in the kitchen",
       status |-> "Pending", priority |-> "HIGH"],
      [id |-> 4, title |-> "Renew gym membership",
       description |-> "Renew membership for the upcoming year",
       status |-> "Completed", priority |-> "LOW"],
      [id |-> 5, title |-> "Doctor's appointment",
       description |-> "Annual checkup with Dr. Smith",
       status |-> "Pending", priority |-> "MEDIUM"],
      [id |-> 6, title |-> "Clean the house",
       description |-> "General house cleaning and organizing",
       status |-> "In Progress", priority |-> "LOW"],
      [id |-> 7, title |-> "Prepare presentation",
       description |-> "Prepare slides for the company meeting",
       status |-> "Pending", priority |-> "HIGH"],
      [id |-> 8, title |-> "Pay electricity bill",
       description |-> "Pay the monthly electricity bill before due date",
       status |-> "Completed", priority |-> "MEDIUM"],
      [id |-> 9, title |-> "Order birthday gift",
       description |-> "Buy a gift for Sarah's birthday",
       status |-> "Pending", priority |-> "LOW"],
      [id |-> 10, title |-> "Submit assignment",
       description |-> "Complete and submit the university assignment",
       status |-> "Pending", priority |-> "HIGH"]>>

\* the priorities of the ten tasks of the search scenario, in insertion order
ScenarioPriorities ==
    <<"HIGH", "MEDIUM", "HIGH", "LOW", "MEDIUM", "HIGH", "LOW", "MEDIUM", "HIGH", "LOW">>

\* the scenario's store: ten tasks inserted in this order (titles as in MockTodos)
ScenarioTodos ==
    [i \in 1..Len(ScenarioPriorities) |->
        [id |-> i, title |-> MockTodos[i].title, description |-> "",
         status |-> "Pending", priority |-> ScenarioPriorities[i]]]

\* field values of the small stores
SampleTitles == {"a", "X"}
SamplePriorities == {"LOW", "HIGH"}
SampleDescriptions == {"", Null}

\* every store of at most MaxStore tasks over the sample values; the i-th
\* inserted task holds the i-th generated id
SampleStores ==
    UNION {[1..n -> [title : SampleTitles, description : SampleDescriptions,
                     priority : SamplePriorities]] : n \in 0..MaxStore}

SampleStore(f) ==
    [i \in DOMAIN f |->
        [id |-> i, title |-> f[i].title, description |-> f[i].description,
         status |-> "Pending", priority |-> f[i].priority]]

\* the column description of the table "todos" is NOT NULL (Mapped[str]):
\* no row of the relational variant holds None
NotNull(store) == \A i \in 1..Len(store) : store[i].description # Null

\* the search values a request carries, by search type
SearchValues(search_type) ==
    CASE search_type = "ID" -> 0..MaxStore
      [] search_type = "TITLE" -> SampleTitles \cup {"A", "Call plumber"}
      [] search_type = "PRIORITY" ->
            {"high", "High", "HIGH", "low", "LOW", "medium", "urgent"}

NoSessions == [i \in 1..MaxUuid |-> 0]
\* the ids a run can generate: those of the seeded tasks and of the creates
MaxId == Len(MockTodos) + MaxUuid

NoDeletes == [i \in 1..MaxId |-> 0]
NoUnits == EmptyBag

\* no token issued yet
NoToken == [payload |-> [sub |-> "", exp |-> 0], signature |-> [sub |-> "", exp |-> -1]]

\* the user service has served nothing: no user rows, the clock at its origin
AuthIdle == users = <<>> /\ now = 0 /\ token = NoToken

NoRequests == <<>>
NoWrites == [i \in 1..MaxId |-> [op |-> "none"]]

\* no coroutine of the in-memory variant is suspended, nothing written yet
MockIdle == in_flight = NoRequests /\ written = NoWrites

----------------------------------------------------------------------------
(* The query specification: a store, and list and search requests on it *)

QueryInit ==
    /\ dev_environment \in BOOLEAN
    /\ database \in IF dev_environment THEN {ReferenceDatabase} ELSE Databases
    /\ \/ \E f \in SampleStores :
             /\ todos = SampleStore(f)
             /\ dev_environment \/ NotNull(todos)
       \/ dev_environment /\ todos \in {MockTodos, ScenarioTodos}
    /\ next_uuid = Len(todos)
    /\ sessions = NoSessions
    /\ units = NoUnits
    /\ true_deletes = NoDeletes
    /\ last = [op |-> "none"]
    /\ AuthIdle
    /\ MockIdle

\* GET /todos
GetAllTodos(p) ==
    /\ \E r \in get_all_todos(dev_environment, database, todos, p) :
          last' = [op |-> "get_all_todos", pagination |-> p, response |-> Response(r)]
    /\ UNCHANGED <<units, dev_environment, database, todos, next_uuid, sessions, true_deletes>>
    /\ UNCHANGED <<auth_vars, mock_vars>>

\* GET /todos/attribute_type
GetTodoByAttribute(search_type, attr_value, p) ==
    /\ \E r \in get_todo_by_attribute(dev_environment, database, todos, search_type, attr_value, p) :
          last' = [op |-> "get_todo_by_attribute", search_type |-> search_type,
                   search_value |-> attr_value, pagination |-> p, response |-> r]
    /\ UNCHANGED <<units, dev_environment, database, todos, next_uuid, sessions, true_deletes>>
    /\ UNCHANGED <<auth_vars, mock_vars>>

\* A query leaves the store as it is, so what a request returns does not
\* depend on the requests served before it: a behaviour serves one request.
QueryNext ==
    \/ \E p \in Pagination : last.op = "none" /\ GetAllTodos(p)
    \/ \E search_type \in AttributeTypes : \E attr_value \in SearchValues(search_type) :
          \E p \in Pagination :
             last.op = "none" /\ GetTodoByAttribute(search_type, attr_value, p)

QuerySpec == QueryInit /\ [][QueryNext]_vars

----------------------------------------------------------------------------
(* Properties of the queries (checked under QuerySpec) *)

ToSet(s) == {s[i] : i \in 1..Len(s)}

RECURSIVE ConcatPages(_, _)
ConcatPages(pages, k) ==
    IF k = 0 THEN <<>> ELSE ConcatPages(pages, k - 1) \o pages[k]

IsListRequest == last.op = "get_all_todos"

IsSearch(search_type) ==
    last.op = "get_todo_by_attribute" /\ last.search_type = search_type

\* the records of the store a TITLE or PRIORITY search is to return
Matches(search_type, attr_value) ==
    IF search_type = "TITLE"
    THEN SelectSeq(todos, LAMBDA e : e.title = attr_value)
    ELSE SelectSeq(todos, LAMBDA e : e.priority = upper(attr_value))

Min(a, b) == IF a < b THEN a ELSE b
Max(a, b) == IF a > b THEN a ELSE b

\* C1 (as stated, for the in-memory variant): with page sizes 1..MaxSize, any
\* order_by and direction, every page of get_all_todos holds at most `size`
\* records and pages 1, 2, 3, ... concatenated are the whole collection
\* sorted by order_by in that direction, every record exactly once.
C1_PagePartition ==
    dev_environment =>
        \A size \in 1..MaxSize : \A order_by \in OrderBys : \A desc \in BOOLEAN :
            LET k == (Len(todos) \div size) + 1
                outcomes(i) == MockTodoService_get_all_todos(
                                   todos, [page |-> i, size |-> size,
                                           order_by |-> order_by, desc |-> desc])
                page(i) == (CHOOSE r \in outcomes(i) : r.kind = "list").value
                all == ConcatPages([i \in 1..k |-> page(i)], k)
            IN /\ \A i \in 1..k : \A r \in outcomes(i) : r.kind = "list"
               /\ \A i \in 1..k : Len(page(i)) <= size
               /\ Len(all) = Len(todos)
               /\ ToSet(all) = ToSet(from_entities(todos))
               /\ IsSortedAsStated(all, order_by, desc)

\* the records of a search served by the in-memory variant: only records of
\* the store that match the predicate, exactly
\* min(size, max(0, matches - (page-1)*size)) of them, each once
SearchPageRecords(search_type) ==
    LET matches == Matches(search_type, last.search_value)
        p == last.pagination
        body == last.response.body
    IN /\ ToSet(body) \subseteq ToSet(from_entities(matches))
       /\ Len(body) = Min(p.size, Max(0, Len(matches) - (p.page - 1) * p.size))
       /\ Cardinality(ToSet(body)) = Len(body)

\* C2 (general part, as stated): a TITLE search, or a PRIORITY search for a
\* priority name, served by the in-memory variant returns the records
\* above, ordered by order_by (enum ordinal for priority) in the requested
\* direction.
SearchPageContract ==
    \A search_type \in {"TITLE", "PRIORITY"} :
        (/\ dev_environment
         /\ IsSearch(search_type)
         /\ search_type = "PRIORITY" => upper(last.search_value) \in PriorityNames)
            => /\ last.response.status = 200
               /\ SearchPageRecords(search_type)
               /\ IsSortedAsStated(last.response.body, last.pagination.order_by,
                                   last.pagination.desc)

\* the scenario's request: search(PRIORITY, "high", page=1, size=2, order_by=title, desc=false)
\* on the ten tasks of the scenario
IsScenarioSearch ==
    /\ dev_environment
    /\ todos = ScenarioTodos
    /\ IsSearch("PRIORITY")
    /\ last.search_value = "high"
    /\ last.pagination = [page |-> 1, size |-> 2, order_by |-> "title", desc |-> FALSE]

\* the scenario's result, given how many HIGH tasks the store holds
ScenarioResult(n_high) ==
    IsScenarioSearch =>
        /\ last.response.status = 200
        /\ Len(last.response.body) = 2
        /\ \A i \in 1..Len(last.response.body) : last.response.body[i].priority = "HIGH"
        /\ IsSortedAsStated(last.response.body, "title", FALSE)
        /\ Len(Matches("PRIORITY", "high")) = n_high

\* C2 (as stated): the search contract, and the scenario returns 2 of the 5
\* HIGH tasks, sorted by title ascending.
C2_SearchPage_FiveHigh == SearchPageContract /\ ScenarioResult(5)

\* C3 (as stated): what the in-memory variant returned for a list or a
\* TITLE/PRIORITY search, the relational variant can return for the same
\* request on the same stored tasks, whatever database it is bound to.
C3_VariantsInterchangeable ==
    \A db \in Databases :
       /\ (dev_environment /\ IsListRequest) =>
             \E r \in TodoService_get_all_todos(db, todos, last.pagination) :
                Response(r) = last.response
       /\ \A search_type \in {"TITLE", "PRIORITY"} :
             (dev_environment /\ IsSearch(search_type) /\ last.response.status = 200) =>
                 last.response \in get_todo_by_attribute(
                     FALSE, db, todos, search_type, last.search_value, last.pagination)

\* C4 (as stated): a PRIORITY search with any other casing of the same
\* priority name has the same outcomes as the one served, in either variant.
C4_PriorityCaseInsensitive ==
    (IsSearch("PRIORITY") /\ upper(last.search_value) \in PriorityNames) =>
        \A other \in SearchValues("PRIORITY") :
            upper(other) = upper(last.search_value) =>
                get_todo_by_attribute(dev_environment, database, todos, "PRIORITY", other,
                                      last.pagination)
                = get_todo_by_attribute(dev_environment, database, todos, "PRIORITY",
                                        last.search_value, last.pagination)

\* C5 (as stated): a PRIORITY search whose value is no priority name is
\* answered 400; a TITLE or PRIORITY search with a valid value that matches
\* no record is answered 200 with an empty sequence; never 404.
C5_InvalidVersusEmpty ==
    /\ (IsSearch("PRIORITY") /\ upper(last.search_value) \notin PriorityNames) =>
          last.response.status = 400
    /\ \A search_type \in {"TITLE", "PRIORITY"} :
          (/\ IsSearch(search_type)
           /\ search_type = "PRIORITY" => upper(last.search_value) \in PriorityNames
           /\ Matches(search_type, last.search_value) = <<>>) =>
              last.response.status = 200 /\ last.response.body = <<>>
    /\ \A search_type \in {"TITLE", "PRIORITY"} :
          IsSearch(search_type) => last.response.status # 404

\* C6 (as stated): an ID search returns the record whose id is the search
\* value, or None (404) when there is none, whatever the pagination, in
\* either variant.
C6_IdSearchIgnoresPagination ==
    IsSearch("ID") =>
        LET found == SelectSeq(todos, LAMBDA e : e.id = last.search_value)
        IN IF found = <<>> THEN last.response.status = 404
           ELSE /\ last.response.status = 200
                /\ last.response.body = from_entity(Head(found))

\* the outcomes the configured service may produce for the request in `last`
OutcomesOfLast ==
    IF IsListRequest THEN get_all_todos(dev_environment, database, todos, last.pagination)
    ELSE get_todo_by_attribute(dev_environment, database, todos, last.search_type,
                               last.search_value, last.pagination)

\* C17 (as stated): the records of a list or TITLE/PRIORITY search result are
\* ordered by order_by in the requested direction, records with equal
\* order_by values keep their insertion order, and the same request on the
\* same store has one possible result only.
C17_OrderDeterministic ==
    (/\ IsListRequest \/ IsSearch("TITLE") \/ IsSearch("PRIORITY")
     /\ last.response.status = 200) =>
        LET p == last.pagination
            body == last.response.body
        IN /\ IsSortedAsStated(body, p.order_by, p.desc)
           /\ \A i \in 1..Len(body) : \A j \in 1..Len(body) :
                 (i < j /\ StatedKey(body[i], p.order_by) = StatedKey(body[j], p.order_by))
                     => IndexOf(todos, body[i].id) < IndexOf(todos, body[j].id)
           /\ Cardinality(OutcomesOfLast) = 1

----------------------------------------------------------------------------
(* The specification of the service: create, update and delete requests    *)
(* on the seeded list (in-memory variant) or on a table that starts empty  *)
(* (relational variant).                                                   *)

\* the tasks the store holds when the service starts: the ten of the list
\* of mock_todo_dao, whose ids are the first uuid4 values drawn, or the rows
\* of a table that starts empty
Seeded(dev) == IF dev THEN MockTodos ELSE <<>>

Init ==
    /\ dev_environment \in BOOLEAN
    /\ database = ReferenceDatabase
    /\ todos = Seeded(dev_environment)
    /\ next_uuid = Len(todos)
    /\ sessions = NoSessions
    /\ units = NoUnits
    /\ true_deletes = NoDeletes
    /\ last = [op |-> "none"]
    /\ AuthIdle
    /\ MockIdle

\* the number of sessions that hold a row marked for deletion
MarkedSessions == LET RECURSIVE Sum(_)
                      Sum(i) == IF i = 0 THEN 0 ELSE sessions[i] + Sum(i - 1)
                  IN Sum(MaxUuid)

\* the number of relational sessions open
OpenSessions == MarkedSessions + BagCardinality(units)

\* another session committed a write of the row todo_id: the create_todo
\* calls that wait to refresh that row have been overtaken
Overtaken(us, todo_id) ==
    LET mark(u) == IF u.op = "create_todo" /\ u.uuid = todo_id
                   THEN [u EXCEPT !.overtaken = TRUE]
                   ELSE u
    IN [v \in {mark(u) : u \in BagToSet(us)} |->
           CopiesIn(CHOOSE u \in BagToSet(us) : mark(u) = v, us)]

\* POST /todos: MockTodoService.create_todo as a whole; TodoService.create_todo
\* up to its commit, the refresh is still to come
CreateTask(body) ==
    /\ next_uuid < Len(Seeded(dev_environment)) + MaxUuid
    /\ LET todo_boundary == TodoBoundary(body)
           done == MockTodoService_create_todo(get_todo_service(todos).todo_dao,
                                               todo_boundary, next_uuid + 1)
           insert == TodoService_create_todo(todos, todo_boundary, next_uuid + 1)
       IN IF dev_environment
          THEN /\ todos' = done.store
               /\ last' = [op |-> "create_todo", boundary |-> todo_boundary,
                           uuid |-> next_uuid + 1, overtaken |-> FALSE,
                           result |-> done.result, status |-> create_task(done.result)]
               /\ UNCHANGED units
          ELSE /\ OpenSessions < MaxSessions
               /\ todos' = insert.store
               /\ IF Raised(insert)
                  THEN /\ last' = [op |-> "create_todo", boundary |-> todo_boundary,
                                   uuid |-> next_uuid + 1, overtaken |-> FALSE,
                                   result |-> [kind |-> insert.kind],
                                   status |-> create_task(insert)]
                       /\ UNCHANGED units
                  ELSE /\ units' = units (+) SetToBag({[op |-> "create_todo",
                                                        body |-> body,
                                                        uuid |-> next_uuid + 1,
                                                        overtaken |-> FALSE]})
                       /\ last' = [op |-> "create_todo_commit"]
    /\ next_uuid' = next_uuid + 1
    /\ UNCHANGED <<dev_environment, database, sessions, true_deletes>>
    /\ UNCHANGED <<auth_vars, mock_vars>>

\* POST /todos, TodoService.create_todo from refresh() on: the row is read
\* again and returned
CreateTaskRefresh(u) ==
    /\ u.op = "create_todo"
    /\ LET result == refresh(todos, u.uuid)
       IN last' = [op |-> "create_todo", boundary |-> TodoBoundary(u.body),
                   uuid |-> u.uuid, overtaken |-> u.overtaken,
                   result |-> result, status |-> create_task(result)]
    /\ units' = units (-) SetToBag({u})
    /\ UNCHANGED <<dev_environment, database, todos, next_uuid, sessions, true_deletes>>
    /\ UNCHANGED <<auth_vars, mock_vars>>

\* PUT /todos/{todo_id}: MockTodoService.update_todo as a whole;
\* TodoService.update_todo up to `if not todo_entity: return`
UpdateTask(todo_id, body) ==
    /\ LET todo_boundary == TodoBoundary(body)
           done == MockTodoService_update_todo(get_todo_service(todos).todo_dao,
                                               todo_id, todo_boundary)
           todo_entity == one_or_none(todos, todo_id)
       IN IF dev_environment
          THEN /\ todos' = done.store
               /\ last' = [op |-> "update_todo", todo_id |-> todo_id, body |-> body,
                           boundary |-> todo_boundary, before |-> todos,
                           result |-> done.result, status |-> update_task(done.result)]
               /\ UNCHANGED units
          ELSE IF todo_entity.kind = "none"
          THEN /\ last' = [op |-> "update_todo", todo_id |-> todo_id, body |-> body,
                           boundary |-> todo_boundary, before |-> todos,
                           result |-> [kind |-> "none"],
                           status |-> update_task([kind |-> "none"])]
               /\ UNCHANGED <<todos, units>>
          ELSE /\ OpenSessions < MaxSessions
               /\ units' = units (+) SetToBag({[op |-> "update_todo", at |-> "commit",
                                                body |-> body,
                                                loaded |-> todo_entity.value]})
               /\ last' = [op |-> "update_todo_read"]
               /\ UNCHANGED todos
    /\ UNCHANGED <<dev_environment, database, next_uuid, sessions, true_deletes>>
    /\ UNCHANGED <<auth_vars, mock_vars>>

\* PUT /todos/{todo_id}, TodoService.update_todo from update() to commit():
\* the UPDATE of the dirty columns, or the StaleDataError the request ends with
UpdateTaskCommit(u) ==
    /\ u.op = "update_todo"
    /\ u.at = "commit"
    /\ LET todo_boundary == TodoBoundary(u.body)
           done == TodoService_update_todo(todos, u.loaded, todo_boundary)
       IN /\ todos' = done.store
          /\ IF Raised(done)
             THEN /\ units' = units (-) SetToBag({u})
                  /\ last' = [op |-> "update_todo", todo_id |-> u.loaded.id,
                              body |-> u.body, boundary |-> todo_boundary,
                              before |-> todos, result |-> [kind |-> done.kind],
                              status |-> update_task([kind |-> done.kind])]
             ELSE /\ units' = Overtaken(
                                  (units (-) SetToBag({u}))
                                  (+) SetToBag({[op |-> "update_todo", at |-> "refresh",
                                                 body |-> u.body,
                                                 todo_id |-> u.loaded.id]}),
                                  u.loaded.id)
                  /\ last' = [op |-> "update_todo_commit", todo_id |-> u.loaded.id,
                              body |-> u.body, before |-> todos]
    /\ UNCHANGED <<dev_environment, database, next_uuid, sessions, true_deletes>>
    /\ UNCHANGED <<auth_vars, mock_vars>>

\* PUT /todos/{todo_id}, TodoService.update_todo from refresh() on
UpdateTaskRefresh(u) ==
    /\ u.op = "update_todo"
    /\ u.at = "refresh"
    /\ LET result == refresh(todos, u.todo_id)
       IN last' = [op |-> "update_todo", todo_id |-> u.todo_id, body |-> u.body,
                   boundary |-> TodoBoundary(u.body), before |-> todos,
                   result |-> result, status |-> update_task(result)]
    /\ units' = units (-) SetToBag({u})
    /\ UNCHANGED <<dev_environment, database, todos, next_uuid, sessions, true_deletes>>
    /\ UNCHANGED <<auth_vars, mock_vars>>

\* DELETE /todos/{todo_id} served by MockTodoService
MockDeleteTask(todo_id) ==
    /\ dev_environment
    /\ LET done == MockTodoService_delete(get_todo_service(todos).todo_dao, todo_id)
       IN /\ todos' = done.store
          /\ last' = [op |-> "delete", todo_id |-> todo_id, before |-> todos,
                      result |-> done.result, status |-> delete_task(done.result)]
          /\ true_deletes' = IF done.result
                             THEN [true_deletes EXCEPT ![todo_id] = @ + 1]
                             ELSE true_deletes
    /\ UNCHANGED <<units, dev_environment, database, next_uuid, sessions>>
    /\ UNCHANGED <<auth_vars, mock_vars>>

\* DELETE /todos/{todo_id} served by TodoService in a session of its own:
\* the request returns with the row marked in the session
TodoDeleteTask(todo_id) ==
    /\ ~dev_environment
    /\ OpenSessions < MaxSessions
    /\ LET done == TodoService_delete(todos, todo_id)
       IN /\ last' = [op |-> "delete", todo_id |-> todo_id, before |-> todos,
                      result |-> done.result, status |-> delete_task(done.result)]
          /\ sessions' = IF done.marked # 0
                         THEN [sessions EXCEPT ![done.marked] = @ + 1]
                         ELSE sessions
          /\ true_deletes' = IF done.result
                             THEN [true_deletes EXCEPT ![todo_id] = @ + 1]
                             ELSE true_deletes
    /\ UNCHANGED <<units, dev_environment, database, todos, next_uuid>>
    /\ UNCHANGED <<auth_vars, mock_vars>>

\* get_todo_dao after the yield: the session of a finished request commits
\* (the marked row is deleted) and closes
SessionTeardown(marked) ==
    /\ sessions[marked] > 0
    /\ todos' = commit_delete(todos, marked)
    /\ sessions' = [sessions EXCEPT ![marked] = @ - 1]
    /\ units' = Overtaken(units, marked)
    /\ last' = [op |-> "commit", marked |-> marked]
    /\ UNCHANGED <<dev_environment, database, next_uuid, true_deletes>>
    /\ UNCHANGED <<auth_vars, mock_vars>>

\* the ids the requests name: that of the first seeded task and those of
\* the tasks created
TargetIds ==
    {id \in 1..next_uuid : id = 1 \/ id > Len(Seeded(dev_environment))}

\* the bodies a client sends: the body that names every field carries the
\* id of a stored task once there is one, every other body an id of the
\* client's own making (0)
ClientBodies ==
    {body \in RequestBodies(0) : next_uuid = 0 \/ "status" \notin DOMAIN body}
    \cup {body \in RequestBodies(1) : next_uuid >= 1 /\ "status" \in DOMAIN body}

\* the bodies of POST /todos and of PUT /todos/{todo_id}
CreateBodies == {body \in ClientBodies : body.title = "X"}
UpdateBodies == {body \in ClientBodies : DOMAIN body # {"id", "title"} \/ body.title = "a"}

Next ==
    \/ \E body \in CreateBodies : CreateTask(body)
    \/ \E todo_id \in {0} \cup TargetIds : \E body \in UpdateBodies :
          UpdateTask(todo_id, body)
    \/ \E todo_id \in TargetIds : MockDeleteTask(todo_id)
    \/ \E todo_id \in TargetIds : TodoDeleteTask(todo_id)
    \/ \E marked \in 1..MaxUuid : SessionTeardown(marked)
    \/ \E u \in BagToSet(units) : CreateTaskRefresh(u)
    \/ \E u \in BagToSet(units) : UpdateTaskCommit(u)
    \/ \E u \in BagToSet(units) : UpdateTaskRefresh(u)

Spec == Init /\ [][Next]_vars

----------------------------------------------------------------------------
(* Properties of create, update and delete (checked under Spec) *)

IdSeq(store) == [i \in 1..Len(store) |-> store[i].id]

\* what get_todo_by_id(id) returns from the configured service
LookupById(id) ==
    IF dev_environment
    THEN {MockTodoService_get_todo_by_id(get_todo_service(todos).todo_dao, <<id>>)}
    ELSE TodoService_get_todo_by_id(todos, <<id>>)

\* C7 (as stated): right after create(t) has returned, and no update or delete of the
\* new id was committed meanwhile, get_todo_by_id(result.id) returns a record
\* equal to t in title, description, status and priority; its id is the
\* uuid the server generated for it, not the id supplied in t.
C7_CreateRoundTrip ==
    (last.op = "create_todo" /\ ~last.overtaken) =>
        /\ last.result.kind = "one"
        /\ last.status = 201
        /\ last.result.value.id = last.uuid
        /\ last.result.value.id # last.boundary.id
        /\ \A r \in LookupById(last.result.value.id) :
              /\ r.kind = "one"
              /\ r.value = last.result.value
              /\ r.value.title = last.boundary.title
              /\ r.value.description = last.boundary.description
              /\ r.value.status = last.boundary.status
              /\ r.value.priority = last.boundary.priority

\* C8: no two stored tasks share an id, every stored id is a uuid the server
\* generated, and update leaves the ids of the store as they were, whatever
\* id the update's fields carry.
C8_IdImmutableUnique ==
    /\ \A i, j \in 1..Len(todos) : todos[i].id = todos[j].id => i = j
    /\ \A i \in 1..Len(todos) : todos[i].id \in 1..next_uuid
    /\ last.op \in {"update_todo", "update_todo_commit"} =>
          IdSeq(todos) = IdSeq(last.before)
    /\ (last.op = "update_todo" /\ last.result.kind = "one") =>
          last.result.value.id = last.todo_id

\* C8 witness: an update of a stored task has been applied whose fields
\* carry the id of another stored task.
C8_Witness ==
    /\ last.op = "update_todo"
    /\ last.result.kind = "one"
    /\ last.boundary.id # last.todo_id
    /\ \E i \in 1..Len(todos) : todos[i].id = last.todo_id
    /\ \E i \in 1..Len(todos) : todos[i].id = last.boundary.id

\* C9 (as stated): update(id, {title: "X"}) on a stored task changes only
\* that task's title: its description, status and priority keep the values
\* stored before, and every other task is unchanged.
C9_UpdateOnlyTitle ==
    (/\ \/ last.op = "update_todo" /\ dev_environment /\ last.result.kind = "one"
        \/ last.op = "update_todo_commit"
     /\ DOMAIN last.body = {"id", "title"}) =>
        LET i == IndexOf(last.before, last.todo_id)
        IN /\ todos[i].title = last.body.title
           /\ todos[i].description = last.before[i].description
           /\ todos[i].status = last.before[i].status
           /\ todos[i].priority = last.before[i].priority
           /\ \A j \in 1..Len(todos) : j # i => todos[j] = last.before[j]

\* C10 (as stated): for every id, delete(id) returns True at most once, also
\* for overlapping requests; a delete that returns False leaves the store
\* as it was, and a delete of the in-memory variant that returns True
\* removes exactly that task.
C10_DeleteTrueOnce ==
    /\ \A id \in 1..MaxId : true_deletes[id] <= 1
    /\ (last.op = "delete" /\ ~last.result) => todos = last.before
    /\ (last.op = "delete" /\ last.result /\ dev_environment) =>
          todos = SelectSeq(last.before, LAMBDA e : e.id # last.todo_id)

\* C15 (as stated): an update or delete that meets a store without the id
\* it names returns None or False (404 from the controller), raises no error
\* and leaves the store exactly as it was.
C15_AbsentIdNoEffect ==
    /\ (last.op = "update_todo" /\ IndexOf(last.before, last.todo_id) = 0) =>
          /\ last.result.kind = "none"
          /\ last.status = 404
          /\ todos = last.before
    /\ (last.op = "delete" /\ IndexOf(last.before, last.todo_id) = 0) =>
          /\ last.result = FALSE
          /\ last.status = 404
          /\ todos = last.before

\* C20 (as stated): once delete(id) has returned True, get_todo_by_id(id)
\* returns None and no page of the list holds the task, in both variants.
C20_DeleteTakesEffect ==
    \A id \in 1..MaxId :
        true_deletes[id] >= 1 =>
            /\ \A r \in LookupById(id) : r.kind = "none"
            /\ \A order_by \in OrderBys :
                  \A r \in get_all_todos(dev_environment, database, todos,
                                         [page |-> 1, size |-> MaxId,
                                          order_by |-> order_by, desc |-> FALSE]) :
                     r.kind = "list" => \A i \in 1..Len(r.value) : r.value[i].id # id

----------------------------------------------------------------------------
(* The user service: UserService over the table "users", the controller    *)
(* entry points /auth/register and /auth/login, the session scope          *)
(* get_user_dao, and the token codec.                                      *)
(*                                                                         *)
(* Representation.  A user row is a record [id, username, email,           *)
(* first_name, last_name, hashed_password].  A password as the client      *)
(* sends it is a string; crypto_ctx.hash(p) with the salt it draws is the  *)
(* record [hashed |-> p, salt |-> n]; a column that held the string p      *)
(* itself would be [raw |-> p]; Python's None is the record None.  Time is *)
(* in milliseconds; a token is its payload and the claims its signature    *)
(* was computed over.                                                      *)

DefaultExpireMin == 30     \* create_access_token(data, expire_min=30)
SecondsPerMinute == 60     \* timedelta(minutes=expire_min)
MillisPerSecond == 1000    \* jwt.encode stores `exp` in whole seconds

None == [none |-> TRUE]

SampleUsernames == {"alice", "bob"}
SamplePasswords == {"pw1", "pw2"}

\* the instants of the wall clock the model visits
Instants == {0, 1, 1000, 1799999, 1800000, 1800001, 1801000}

\* pydantic EmailStr: whether the string validates as an e-mail address
EmailStr(s) == s \in {"a@x.io", "b@x.io"}

\* the JSON bodies of POST /auth/register: `email` may be left out
RegisterBodies ==
    {[username |-> u, first_name |-> "A", last_name |-> "B", password |-> "pw1"] :
        u \in SampleUsernames}
    \cup {[username |-> u, email |-> "a@x.io", first_name |-> "A", last_name |-> "B",
           password |-> "pw1"] : u \in SampleUsernames}

\* UserBoundary(**body): id and email default to '' (a default is not validated)
UserBoundary(body) ==
    [id |-> 0,
     username |-> body.username,
     email |-> IF "email" \in DOMAIN body THEN body.email ELSE "",
     first_name |-> body.first_name,
     last_name |-> body.last_name,
     password |-> body.password]

\* UserLogin(username, password)
UserLogin == [username : SampleUsernames, password : SamplePasswords]

\* crypto_ctx.hash: a salted digest of the password
crypto_ctx_hash(password, salt) == [hashed |-> password, salt |-> salt]

\* crypto_ctx.verify: recompute with the stored salt and compare
crypto_ctx_verify(password, hashed_password) ==
    "hashed" \in DOMAIN hashed_password /\ hashed_password.hashed = password

\* a variant of from_boundary that stores the password as it was sent
UserEntity_from_boundary_Raw(user_boundary, uuid, salt) ==
    [id |-> uuid, username |-> user_boundary.username, email |-> user_boundary.email,
     first_name |-> user_boundary.first_name, last_name |-> user_boundary.last_name,
     hashed_password |-> [raw |-> user_boundary.password]]

\* UserEntity.from_boundary, with the id the column default draws (uuid4)
UserEntity_from_boundary(user_boundary, uuid, salt) ==
    [id |-> uuid, username |-> user_boundary.username, email |-> user_boundary.email,
     first_name |-> user_boundary.first_name, last_name |-> user_boundary.last_name,
     hashed_password |-> crypto_ctx_hash(user_boundary.password, salt)]

\* the unique constraints of "users" that inserting the row would violate
UniqueViolations(rows, user_entity) ==
    {c \in {"username", "email", "hashed_password"} :
        \E i \in 1..Len(rows) : rows[i][c] = user_entity[c]}

\* UserFilteredBoundary.from_entity: the constructor validates its arguments
\* (email: EmailStr), password is None
UserFilteredBoundary_from_entity(user_entity) ==
    IF ~EmailStr(user_entity.email) THEN [kind |-> "ValidationError"]
    ELSE [kind |-> "one",
          value |-> [id |-> user_entity.id, username |-> user_entity.username,
                     email |-> user_entity.email, first_name |-> user_entity.first_name,
                     last_name |-> user_entity.last_name, password |-> None]]

\* the response body of a UserFilteredBoundary: password is Field(exclude=True)
jsonable(view) == [f \in DOMAIN view \ {"password"} |-> view[f]]

----------------------------------------------------------------------------
(* The token codec *)

\* jwt.encode: a datetime `exp` becomes timegm(...) in whole seconds; the
\* signature is computed over the claims
jwt_encode(claims) ==
    LET payload == [claims EXCEPT !.exp = @ \div MillisPerSecond]
    IN [payload |-> payload, signature |-> payload]

\* create_access_token(data, expire_min) called at the instant t
create_access_token(data, expire_min, t) ==
    jwt_encode([sub |-> data.sub,
                exp |-> t + expire_min * SecondsPerMinute * MillisPerSecond])

\* decode_access_token(token) called at the instant t: jwt.decode verifies
\* the signature (JWTError), then the expiry: `if exp < now: raise
\* ExpiredSignatureError` with now in whole seconds
decode_access_token(tok, t) ==
    IF tok.payload # tok.signature THEN [kind |-> "JWTError"]
    ELSE IF tok.payload.exp < t \div MillisPerSecond
         THEN [kind |-> "ExpiredSignatureError"]
         ELSE [kind |-> "claims", value |-> tok.payload]

----------------------------------------------------------------------------
(* UserService.  The result of an operation carries the rows afterwards,   *)
(* the value returned or the exception raised, and the calls made on the   *)
(* session.                                                                *)

\* a variant of login that issues the token without verifying the password
UserService_login_NoVerify(rows, user_login, t) ==
    LET found == SelectSeq(rows, LAMBDA e : e.username = user_login.username)
    IN IF found = <<>> THEN [kind |-> "none"]
       ELSE [kind |-> "token",
             value |-> create_access_token([sub |-> Head(found).username],
                                           DefaultExpireMin, t)]

\* a variant of login that tells an unknown user from a wrong password
UserService_login_NamesCause(rows, user_login, t) ==
    LET found == SelectSeq(rows, LAMBDA e : e.username = user_login.username)
    IN IF found = <<>> THEN [kind |-> "none", cause |-> "unknown user"]
       ELSE IF ~crypto_ctx_verify(user_login.password, Head(found).hashed_password)
            THEN [kind |-> "none"]
            ELSE [kind |-> "token",
                  value |-> create_access_token([sub |-> Head(found).username],
                                                DefaultExpireMin, t)]

\* UserService.login (query_current_user) at the instant t
UserService_login(rows, user_login, t) ==
    LET found == SelectSeq(rows, LAMBDA e : e.username = user_login.username)
    IN IF found = <<>>
          \/ ~crypto_ctx_verify(user_login.password, Head(found).hashed_password)
       THEN [kind |-> "none"]
       ELSE [kind |-> "token",
             value |-> create_access_token([sub |-> Head(found).username],
                                           DefaultExpireMin, t)]

\* UserService.register (register_user): from_boundary, add, commit, from_entity.
\* The commit raises IntegrityError naming a violated unique constraint and
\* writes nothing; otherwise the row is committed before from_entity runs.
UserService_register(rows, user_boundary, uuid, salt) ==
    LET user_entity == UserEntity_from_boundary(user_boundary, uuid, salt)
        violated == UniqueViolations(rows, user_entity)
    IN IF violated # {}
       THEN {[store |-> rows, calls |-> <<"add", "commit_failed">>,
              result |-> [kind |-> "IntegrityError", constraint |-> c]] : c \in violated}
       ELSE {[store |-> Append(rows, user_entity), calls |-> <<"add", "commit">>,
              result |-> UserFilteredBoundary_from_entity(user_entity)]}

----------------------------------------------------------------------------
(* user_controller and get_user_dao *)

\* POST /auth/register: the responses the controller may produce for the
\* result of UserService.register.  The detail of a 400 depends on the
\* wording of the database's message (str(e.orig)): it names the column
\* when the message holds "unique constraint" and the column's name, and
\* is the general sentence otherwise.
register(result) ==
    CASE result.kind = "one" -> {[status |-> 200, body |-> jsonable(result.value)]}
      [] result.kind = "IntegrityError" ->
            {[status |-> 400,
              detail |-> CASE result.constraint = "email" ->
                                 "The email address is already taken."
                           [] result.constraint = "username" ->
                                 "The username is already taken."
                           [] OTHER ->
                                 "An integrity error occurred. Please check your data."],
             [status |-> 400,
              detail |-> "An integrity error occurred. Please check your data."]}
      [] OTHER -> {[status |-> 500]}

\* POST /auth/login
login(result) ==
    IF result.kind = "none"
    THEN [status |-> 401, detail |-> "Invalid username or password"]
    ELSE [status |-> 200, body |-> [access_token |-> result.value]]

\* get_user_dao around a unit of work that made `calls` on the session and
\* then returned (raised = FALSE) or raised an Exception: the calls on the
\* session from session_local() to close()
get_user_dao(calls, raised) ==
    <<"session_local">> \o calls
        \o (IF raised THEN <<"rollback", "raise">> ELSE <<"commit">>)
        \o <<"close">>

----------------------------------------------------------------------------
(* The specification of the user service: registrations and logins on a    *)
(* table that starts empty, while the clock advances.  next_uuid counts    *)
(* the registrations served: each draws one uuid4 and one salt.            *)

UserInit ==
    /\ dev_environment = FALSE
    /\ database = ReferenceDatabase
    /\ todos = <<>>
    /\ next_uuid = 0
    /\ sessions = NoSessions
    /\ units = NoUnits
    /\ true_deletes = NoDeletes
    /\ last = [op |-> "none"]
    /\ AuthIdle
    /\ MockIdle

\* POST /auth/register in a session of get_user_dao
Register(body) ==
    /\ next_uuid < MaxUuid
    /\ LET user_boundary == UserBoundary(body)
       IN \E done \in UserService_register(users, user_boundary,
                                           next_uuid + 1, next_uuid + 1) :
             \E response \in register(done.result) :
                /\ users' = done.store
                /\ last' = [op |-> "register", boundary |-> user_boundary,
                            before |-> users, result |-> done.result,
                            response |-> response,
                            raised |-> response.status # 200,
                            session |-> get_user_dao(done.calls,
                                                     response.status # 200)]
    /\ next_uuid' = next_uuid + 1
    /\ UNCHANGED <<units, dev_environment, database, todos, sessions, true_deletes, now, token>>
    /\ UNCHANGED mock_vars

\* POST /auth/login in a session of get_user_dao
Login(user_login) ==
    /\ LET result == UserService_login(users, user_login, now)
           response == login(result)
       IN last' = [op |-> "login", user_login |-> user_login, at |-> now,
                   result |-> result, response |-> response,
                   raised |-> response.status # 200,
                   session |-> get_user_dao(<<"query">>, response.status # 200)]
    /\ UNCHANGED <<units, dev_environment, database, todos, next_uuid, sessions, true_deletes>>
    /\ UNCHANGED <<auth_vars, mock_vars>>

\* the wall clock advances to a later instant
Tick(t) ==
    /\ t > now
    /\ now' = t
    /\ UNCHANGED <<units, dev_environment, database, todos, next_uuid, sessions, true_deletes, last,
                   users, token>>
    /\ UNCHANGED mock_vars

UserNext ==
    \/ \E body \in RegisterBodies : Register(body)
    \/ \E user_login \in UserLogin : Login(user_login)
    \/ \E t \in Instants : Tick(t)

UserSpec == UserInit /\ [][UserNext]_vars

----------------------------------------------------------------------------
(* Properties of the user service (checked under UserSpec) *)

\* the rows of `rows` that hold the username
ByUsername(rows, username) == SelectSeq(rows, LAMBDA e : e.username = username)

\* the request in `last` is a login that names a stored user and carries
\* the password that user registered with
CorrectLogin ==
    LET found == ByUsername(users, last.user_login.username)
    IN /\ found # <<>>
       /\ Head(found).hashed_password
             = crypto_ctx_hash(last.user_login.password, Head(found).hashed_password.salt)

\* C11 (as stated): a registration whose username or email a stored user
\* already has fails with 400 and leaves the table exactly as it was; any
\* other registration succeeds and adds exactly its own record.
C11_DuplicateRegistration ==
    last.op = "register" =>
        LET b == last.boundary
            taken == \E i \in 1..Len(last.before) :
                        \/ last.before[i].username = b.username
                        \/ last.before[i].email = b.email
        IN /\ taken => /\ last.response.status = 400
                       /\ users = last.before
           /\ ~taken => /\ last.response.status = 200
                        /\ Len(users) = Len(last.before) + 1
                        /\ SubSeq(users, 1, Len(last.before)) = last.before
                        /\ users[Len(users)].username = b.username
                        /\ users[Len(users)].email = b.email

\* C12: a login with a username no stored user has and a login with a
\* stored username and a wrong password have the same outcome: None from
\* the service, and the same 401 with the same detail from the controller.
C12_LoginFailuresAlike ==
    (last.op = "login" /\ ~CorrectLogin) =>
        /\ last.result = [kind |-> "none"]
        /\ last.response = [status |-> 401, detail |-> "Invalid username or password"]

\* C12 witness: with a user stored, a login named a username that no stored
\* user has, and was refused.
C12_Witness ==
    /\ last.op = "login"
    /\ Len(users) >= 1
    /\ ByUsername(users, last.user_login.username) = <<>>
    /\ last.response.status = 401

\* C14: a login with a stored username and its password succeeds with a
\* token whose sub is the username and whose exp is the second of issue
\* plus 30 minutes (1800 s), signed so that it decodes at that instant; a
\* login that fails returns no token.
C14_LoginMintsToken ==
    last.op = "login" =>
        /\ CorrectLogin =>
              /\ last.response.status = 200
              /\ last.response.body.access_token.payload.sub = last.user_login.username
              /\ last.response.body.access_token.payload.exp
                    = (last.at \div 1000) + 1800
              /\ decode_access_token(last.response.body.access_token, last.at).kind
                    = "claims"
        /\ ~CorrectLogin =>
              /\ last.result.kind = "none"
              /\ "body" \notin DOMAIN last.response

\* C14 witness: a login succeeded at an instant that is not a whole second.
C14_Witness ==
    /\ last.op = "login"
    /\ last.response.status = 200
    /\ last.at % 1000 # 0

\* C16 (as stated): the session of a request is closed last and once; a unit
\* of work that returns is followed by commit, close; one that raises is
\* followed by rollback, re-raise, close; no session is both committed and
\* rolled back.
C16_SessionReleased ==
    last.op \in {"register", "login"} =>
        LET log == last.session
            n == Len(log)
        IN /\ log[1] = "session_local"
           /\ log[n] = "close"
           /\ \A i \in 1..(n - 1) : log[i] # "close"
           /\ ~last.raised => log[n - 1] = "commit"
           /\ last.raised => log[n - 2] = "rollback" /\ log[n - 1] = "raise"
           /\ ~(/\ \E i \in 1..n : log[i] = "commit"
                /\ \E i \in 1..n : log[i] = "rollback")

\* C18: no stored user row holds the password as it was sent, the view a
\* registration returns has password None and its body has neither
\* password nor hashed_password, and the usernames and the emails of the
\* stored users are pairwise distinct.
C18_NoRawPassword ==
    /\ \A i \in 1..Len(users) : \A p \in SamplePasswords :
          /\ users[i].hashed_password # [raw |-> p]
          /\ \E q \in SamplePasswords : crypto_ctx_verify(q, users[i].hashed_password)
    /\ (last.op = "register" /\ last.response.status = 200) =>
          /\ last.result.value.password = None
          /\ "password" \notin DOMAIN last.response.body
          /\ "hashed_password" \notin DOMAIN last.response.body
    /\ \A i, j \in 1..Len(users) :
          i # j => /\ users[i].username # users[j].username
                   /\ users[i].email # users[j].email

\* C18 witness: a registration succeeded as the second user of the table.
C18_Witness ==
    /\ last.op = "register"
    /\ last.response.status = 200
    /\ Len(users) = 2
    /\ users[2].username = last.boundary.username

----------------------------------------------------------------------------
(* The specification of the token codec: a client obtains tokens, may      *)
(* alter the one it holds, and presents it for decoding as time passes.    *)

\* create_access_token({'sub': sub}, expire_min) at the present instant
CreateAccessToken(sub, expire_min) ==
    /\ token' = create_access_token([sub |-> sub], expire_min, now)
    /\ last' = [op |-> "create_access_token", expire_min |-> expire_min, at |-> now]
    /\ UNCHANGED <<units, dev_environment, database, todos, next_uuid, sessions, true_deletes,
                   users, now>>
    /\ UNCHANGED mock_vars

\* the client rewrites the expiry in the payload of the token it holds; the
\* signature stays the one computed over the original claims
TamperToken ==
    /\ token # NoToken
    /\ token.payload = token.signature
    /\ token' = [token EXCEPT !.payload.exp = @ + 3600]
    /\ last' = [op |-> "tamper"]
    /\ UNCHANGED <<units, dev_environment, database, todos, next_uuid, sessions, true_deletes,
                   users, now>>
    /\ UNCHANGED mock_vars

\* decode_access_token(token) at the present instant
DecodeAccessToken ==
    /\ token # NoToken
    /\ last' = [op |-> "decode_access_token", token |-> token, at |-> now,
                result |-> decode_access_token(token, now)]
    /\ UNCHANGED <<units, dev_environment, database, todos, next_uuid, sessions, true_deletes>>
    /\ UNCHANGED <<auth_vars, mock_vars>>

TokenNext ==
    \/ \E sub \in SampleUsernames : \E expire_min \in {0, DefaultExpireMin} :
          CreateAccessToken(sub, expire_min)
    \/ TamperToken
    \/ DecodeAccessToken
    \/ \E t \in Instants : Tick(t)

TokenSpec == UserInit /\ [][TokenNext]_vars

\* C13 (as stated): decoding a token whose signature matches its payload
\* succeeds exactly when now < exp and raises ExpiredSignatureError as soon
\* as now >= exp (now in milliseconds, exp in seconds), so a token issued
\* with expire_min = 0 is expired at every later instant; a token whose
\* payload was altered raises JWTError, not ExpiredSignatureError.
C13_ExpiryBoundary ==
    last.op = "decode_access_token" =>
        IF last.token.payload = last.token.signature
        THEN /\ last.result.kind = "claims" <=>
                    last.at < last.token.payload.exp * 1000
             /\ last.at >= last.token.payload.exp * 1000 =>
                    last.result.kind = "ExpiredSignatureError"
        ELSE last.result.kind = "JWTError"

----------------------------------------------------------------------------
(* The specification of the in-memory variant under concurrent callers.    *)
(* Every method of MockTodoService is a coroutine on the one event loop.   *)
(* A request is called: get_todo_service binds a new service to the list   *)
(* and the coroutine suspends in `await asyncio.sleep(MOCK_RESPONSE_DELAY)`*)
(* at its start.  When it is resumed it runs the statements of its body    *)
(* one after another; the body has no further await, so the event loop     *)
(* runs no other coroutine until it has returned.  A coroutine is a record *)
(* [request, pc, locals]: pc is "sleep" while it is suspended, then the    *)
(* statement it is to run next.  Here `last` is the request the step just  *)
(* taken completed, with the list and the write history its coroutine was  *)
(* resumed on; a step that completes no request leaves it empty.           *)

\* the list of mock_todo_dao at start-up, and for each seeded task the
\* fields it was constructed with
SeedWrites ==
    [i \in 1..MaxId |-> IF i <= Len(MockTodos)
                        THEN [op |-> "seed",
                              fields |-> [title |-> MockTodos[i].title,
                                          description |-> MockTodos[i].description,
                                          status |-> MockTodos[i].status,
                                          priority |-> MockTodos[i].priority]]
                        ELSE [op |-> "none"]]

MockInit ==
    /\ dev_environment = TRUE
    /\ database = ReferenceDatabase
    /\ todos = Seeded(dev_environment)
    /\ next_uuid = Len(todos)
    /\ sessions = NoSessions
    /\ units = NoUnits
    /\ true_deletes = NoDeletes
    /\ last = [op |-> "none"]
    /\ AuthIdle
    /\ in_flight = NoRequests
    /\ written = SeedWrites

\* the bodies of the requests: they carry no id of their own
MockBodies == {b \in RequestBodies(0) : b.title = "X"}

\* the page the list and search requests ask for
MockPage == [page |-> 1, size |-> MaxSize, order_by |-> "title", desc |-> FALSE]

\* the requests the callers send; the ids named are those of the first
\* seeded task and of the first task created
MockRequests ==
    {[op |-> "create_todo", body |-> b] : b \in MockBodies}
    \cup {[op |-> "update_todo", todo_id |-> id, body |-> b] :
             id \in {1, Len(MockTodos) + 1}, b \in MockBodies}
    \cup {[op |-> "delete", todo_id |-> id] : id \in {1, Len(MockTodos) + 1}}
    \cup {[op |-> "get_todo_by_id", todo_id |-> 1],
          [op |-> "get_all_todos", pagination |-> MockPage],
          [op |-> "get_todo_by_title", attr_value |-> "X", pagination |-> MockPage],
          [op |-> "get_todo_by_priority", attr_value |-> "high",
           pagination |-> MockPage]}

\* the fields of a task other than its id
Fields(t) == [title |-> t.title, description |-> t.description,
              status |-> t.status, priority |-> t.priority]

\* a scheduler of threads: a caller runs whenever it is ready
Scheduled_Preemptive(i) == i \in 1..Len(in_flight)

\* The event loop runs one coroutine at a time, from one await to the next:
\* the i-th coroutine runs only while every other one is suspended in its
\* sleep, the only await of the methods.
Scheduled(i) ==
    /\ i \in 1..Len(in_flight)
    /\ \A j \in 1..Len(in_flight) : j # i => in_flight[j].pc = "sleep"

\* the i-th coroutine is the one running and stands at pc in a call of op
At(i, op, pc) ==
    /\ Scheduled(i)
    /\ in_flight[i].request.op = op
    /\ in_flight[i].pc = pc

\* a request is called: the coroutine runs up to its sleep and suspends
MockCall(request) ==
    /\ Len(in_flight) < MaxInFlight
    /\ in_flight' = Append(in_flight, [request |-> request, pc |-> "sleep",
                                       locals |-> <<>>])
    /\ UNCHANGED <<units, dev_environment, database, todos, next_uuid, sessions,
                   true_deletes, written>>
    /\ last' = [op |-> "none"]
    /\ UNCHANGED auth_vars

\* create_todo: todo_entity = MockTodoEntity.from_boundary(todo_boundary)
CreateFromBoundary(i) ==
    /\ At(i, "create_todo", "sleep")
    /\ next_uuid < Len(MockTodos) + MaxUuid
    /\ LET todo_boundary == TodoBoundary(in_flight[i].request.body)
           todo_entity == MockTodoEntity_from_boundary(todo_boundary, next_uuid + 1)
       IN in_flight' = [in_flight EXCEPT ![i] =
              [@ EXCEPT !.pc = "append",
                        !.locals = [before |-> todos, history |-> written,
                                    todo_entity |-> todo_entity]]]
    /\ next_uuid' = next_uuid + 1
    /\ UNCHANGED <<units, dev_environment, database, todos, sessions, true_deletes,
                   written>>
    /\ last' = [op |-> "none"]
    /\ UNCHANGED auth_vars

\* create_todo: self.todo_dao.append(todo_entity)
CreateAppend(i) ==
    /\ At(i, "create_todo", "append")
    /\ LET todo_entity == in_flight[i].locals.todo_entity
       IN /\ todos' = Append(get_todo_service(todos).todo_dao, todo_entity)
          /\ in_flight' = [in_flight EXCEPT ![i] =
                 [@ EXCEPT !.pc = "return",
                           !.locals = [before |-> @.before, history |-> @.history,
                                       result |-> [kind |-> "one",
                                                   value |-> from_entity(todo_entity)]]]]
    /\ UNCHANGED <<units, dev_environment, database, next_uuid, sessions,
                   true_deletes, written>>
    /\ last' = [op |-> "none"]
    /\ UNCHANGED auth_vars

\* the attributes todo_entity.update sets, in the order of model_dump()
\* after data.pop('id')
UpdatedFields == <<"title", "description", "status", "priority">>

\* update_todo: todo_entity = next(filter(...), None); `if not todo_entity:
\* return None`
UpdateFind(i) ==
    /\ At(i, "update_todo", "sleep")
    /\ LET k == IndexOf(get_todo_service(todos).todo_dao, in_flight[i].request.todo_id)
       IN in_flight' = [in_flight EXCEPT ![i] =
              IF k = 0
              THEN [@ EXCEPT !.pc = "return",
                             !.locals = [before |-> todos, history |-> written,
                                         result |-> [kind |-> "none"]]]
              ELSE [@ EXCEPT !.pc = "setattr",
                             !.locals = [before |-> todos, history |-> written,
                                         todo_entity |-> todos[k],
                                         data |-> UpdatedFields]]]
    /\ UNCHANGED <<units, dev_environment, database, todos, next_uuid, sessions,
                   true_deletes, written>>
    /\ last' = [op |-> "none"]
    /\ UNCHANGED auth_vars

\* update_todo: todo_entity.update(todo_boundary.model_dump()), one
\* setattr(self, field, value) of its loop: the attribute is set on the
\* entity found, which is the object in the list as long as it is in it
UpdateSetattr(i) ==
    /\ At(i, "update_todo", "setattr")
    /\ LET locals == in_flight[i].locals
           field == Head(locals.data)
           value == model_dump(TodoBoundary(in_flight[i].request.body))[field]
           todo_entity == [locals.todo_entity EXCEPT ![field] = value]
           k == IndexOf(todos, todo_entity.id)
       IN /\ todos' = IF k = 0 THEN todos ELSE [todos EXCEPT ![k][field] = value]
          /\ in_flight' = [in_flight EXCEPT ![i] =
                 IF Tail(locals.data) = <<>>
                 THEN [@ EXCEPT !.pc = "return",
                                !.locals = [before |-> locals.before,
                                            history |-> locals.history,
                                            result |-> [kind |-> "one",
                                                        value |-> from_entity(todo_entity)]]]
                 ELSE [@ EXCEPT !.locals = [locals EXCEPT !.todo_entity = todo_entity,
                                                          !.data = Tail(locals.data)]]]
    /\ UNCHANGED <<units, dev_environment, database, next_uuid, sessions,
                   true_deletes, written>>
    /\ last' = [op |-> "none"]
    /\ UNCHANGED auth_vars

\* delete: todo_entity = next(filter(...), None); `if not todo_entity:
\* return False`
DeleteFind(i) ==
    /\ At(i, "delete", "sleep")
    /\ LET k == IndexOf(get_todo_service(todos).todo_dao, in_flight[i].request.todo_id)
       IN in_flight' = [in_flight EXCEPT ![i] =
              IF k = 0
              THEN [@ EXCEPT !.pc = "return",
                             !.locals = [before |-> todos, history |-> written,
                                         result |-> [kind |-> "bool", value |-> FALSE]]]
              ELSE [@ EXCEPT !.pc = "remove",
                             !.locals = [before |-> todos, history |-> written,
                                         todo_entity |-> todos[k]]]]
    /\ UNCHANGED <<units, dev_environment, database, todos, next_uuid, sessions,
                   true_deletes, written>>
    /\ last' = [op |-> "none"]
    /\ UNCHANGED auth_vars

\* delete: self.todo_dao.remove(todo_entity), which raises ValueError when
\* no element of the list equals the entity; then `return True`
DeleteRemove(i) ==
    /\ At(i, "delete", "remove")
    /\ LET locals == in_flight[i].locals
           present == \E k \in 1..Len(todos) : todos[k] = locals.todo_entity
       IN /\ todos' = IF present THEN remove(todos, locals.todo_entity) ELSE todos
          /\ in_flight' = [in_flight EXCEPT ![i] =
                 [@ EXCEPT !.pc = "return",
                           !.locals = [before |-> locals.before,
                                       history |-> locals.history,
                                       result |-> IF present
                                                  THEN [kind |-> "bool", value |-> TRUE]
                                                  ELSE [kind |-> "ValueError"]]]]
    /\ UNCHANGED <<units, dev_environment, database, next_uuid, sessions,
                   true_deletes, written>>
    /\ last' = [op |-> "none"]
    /\ UNCHANGED auth_vars

\* the reading methods
MockQueries ==
    {"get_todo_by_id", "get_all_todos", "get_todo_by_title", "get_todo_by_priority"}

\* what a reading method may return on the list dao
MockQuery(request, dao) ==
    CASE request.op = "get_todo_by_id" ->
            {MockTodoService_get_todo_by_id(dao, <<request.todo_id>>)}
      [] request.op = "get_all_todos" ->
            MockTodoService_get_all_todos(dao, request.pagination)
      [] request.op = "get_todo_by_title" ->
            MockTodoService_get_todo_by_title(dao, request.attr_value, request.pagination)
      [] request.op = "get_todo_by_priority" ->
            MockTodoService_get_todo_by_priority(dao, request.attr_value,
                                                 request.pagination)

\* get_todo_by_id, get_all_todos, get_todo_by_title, get_todo_by_priority:
\* the statement that reads the list
Query(i) ==
    /\ \E op \in MockQueries : At(i, op, "sleep")
    /\ \E result \in MockQuery(in_flight[i].request, get_todo_service(todos).todo_dao) :
          in_flight' = [in_flight EXCEPT ![i] =
              [@ EXCEPT !.pc = "return",
                        !.locals = [before |-> todos, history |-> written,
                                    result |-> result]]]
    /\ UNCHANGED <<units, dev_environment, database, todos, next_uuid, sessions,
                   true_deletes, written>>
    /\ last' = [op |-> "none"]
    /\ UNCHANGED auth_vars

\* the coroutine returns (or raises): the request is completed
Return(i) ==
    /\ \E op \in {"create_todo", "update_todo", "delete"} \cup MockQueries :
          At(i, op, "return")
    /\ LET request == in_flight[i].request
           locals == in_flight[i].locals
       IN /\ last' = [op |-> request.op, request |-> request, result |-> locals.result,
                      before |-> locals.before, history |-> locals.history]
          /\ written' =
                IF request.op = "create_todo"
                THEN [written EXCEPT ![locals.result.value.id] =
                         [op |-> "create_todo",
                          fields |-> Fields(TodoBoundary(request.body))]]
                ELSE IF request.op = "update_todo" /\ locals.result.kind = "one"
                THEN [written EXCEPT ![request.todo_id] =
                         [op |-> "update_todo",
                          fields |-> Fields(TodoBoundary(request.body))]]
                ELSE written
          /\ true_deletes' =
                IF request.op = "delete" /\ locals.result = [kind |-> "bool", value |-> TRUE]
                THEN [true_deletes EXCEPT ![request.todo_id] = @ + 1]
                ELSE true_deletes
    /\ in_flight' = Without(in_flight, i)
    /\ UNCHANGED <<units, dev_environment, database, todos, next_uuid, sessions>>
    /\ UNCHANGED auth_vars

MockNext ==
    \/ \E request \in MockRequests : MockCall(request)
    \/ \E i \in 1..MaxInFlight : CreateFromBoundary(i)
    \/ \E i \in 1..MaxInFlight : CreateAppend(i)
    \/ \E i \in 1..MaxInFlight : UpdateFind(i)
    \/ \E i \in 1..MaxInFlight : UpdateSetattr(i)
    \/ \E i \in 1..MaxInFlight : DeleteFind(i)
    \/ \E i \in 1..MaxInFlight : DeleteRemove(i)
    \/ \E i \in 1..MaxInFlight : Query(i)
    \/ \E i \in 1..MaxInFlight : Return(i)

MockSpec == MockInit /\ [][MockNext]_vars

\* the tasks of the list that hold the id
WithId(id) == SelectSeq(todos, LAMBDA e : e.id = id)

\* how many delete calls returned True, over all ids
TrueDeletes == LET RECURSIVE Sum(_)
                   Sum(i) == IF i = 0 THEN 0 ELSE true_deletes[i] + Sum(i - 1)
               IN Sum(MaxId)

\* every coroutine is suspended in its sleep: the states in which the event
\* loop may pass control to another request
Quiescent == \A j \in 1..Len(in_flight) : in_flight[j].pc = "sleep"

\* the records a completed read returned
Records(result) ==
    CASE result.kind = "list" -> result.value
      [] result.kind = "one" -> <<result.value>>
      [] OTHER -> <<>>

\* C19: whatever the interleaving of overlapping create, update, delete,
\* list and search requests, (1) whenever control may pass between requests
\* the list is the outcome of the completed requests applied one after
\* another: every task seeded or created and not deleted is in it exactly
\* once (no lost create) with all the fields of the last create or update
\* completed on it and nothing else (all or nothing), and no id was removed
\* twice; (2) each completed mutation changed the list and returned exactly
\* as the whole method applied to the list it was resumed on; (3) each
\* completed list, search or lookup returned what the method returns on the
\* list it was resumed on, and every task it saw holds the fields of one
\* completed write (none is half-updated).
C19_MockAtomic ==
    /\ Quiescent =>
          /\ Len(todos) = next_uuid - TrueDeletes
          /\ \A id \in 1..MaxId :
                /\ true_deletes[id] <= 1
                /\ id > next_uuid => WithId(id) = <<>>
                /\ (id <= next_uuid /\ true_deletes[id] = 1) => WithId(id) = <<>>
                /\ (id <= next_uuid /\ true_deletes[id] = 0) =>
                      /\ Len(WithId(id)) = 1
                      /\ Fields(Head(WithId(id))) = written[id].fields
    /\ last.op = "create_todo" =>
          /\ last.result.kind = "one"
          /\ \A k \in 1..Len(last.before) : last.before[k].id # last.result.value.id
          /\ LET done == MockTodoService_create_todo(
                             last.before, TodoBoundary(last.request.body),
                             last.result.value.id)
             IN todos = done.store /\ last.result = done.result
    /\ last.op = "update_todo" =>
          LET done == MockTodoService_update_todo(
                          last.before, last.request.todo_id,
                          TodoBoundary(last.request.body))
          IN todos = done.store /\ last.result = done.result
    /\ last.op = "delete" =>
          LET done == MockTodoService_delete(last.before, last.request.todo_id)
          IN /\ todos = done.store
             /\ last.result = [kind |-> "bool", value |-> done.result]
    /\ last.op \in MockQueries =>
          /\ todos = last.before
          /\ last.result \in MockQuery(last.request, last.before)
          /\ \A k \in 1..Len(Records(last.result)) :
                Fields(Records(last.result)[k])
                    = last.history[Records(last.result)[k].id].fields

\* C19 witness: a list request has returned a page that holds the first
\* seeded task as a completed update left it, while another update of that
\* task, called before the list request completed, is still suspended.
C19_Witness ==
    /\ last.op = "get_all_todos"
    /\ last.result.kind = "list"
    /\ \E k \in 1..Len(last.result.value) :
          /\ last.result.value[k].id = 1
          /\ last.result.value[k].title = "X"
    /\ \E j \in 1..Len(in_flight) :
          /\ in_flight[j].request.op = "update_todo"
          /\ in_flight[j].request.todo_id = 1
          /\ in_flight[j].pc = "sleep"

====
